---- MODULE Spec2Model ----
(***************************************************************************)
(* A model of the weather dashboard's data layer (shared-data.js) and of   *)
(* its edge relay (the Cloudflare worker, two revisions).                  *)
(*                                                                         *)
(* Strings the code builds and parses are sequences of one-character (or   *)
(* one-token) strings, so that formatting (toFixed, padZero,               *)
(* encodeURIComponent) and parsing (parseFloat, URL, searchParams) are     *)
(* computed, not assumed.                                                  *)
(***************************************************************************)
EXTENDS Integers, Sequences, FiniteSets, TLC

VARIABLES
    CONFIG,      \* shared-data.js CONFIG: [USE_PROXY, PROXY_URL]
    proxyCall,   \* the arguments of the latest setProxyMode call
    opened,      \* per fetch: the URLs its requests were opened with
    now,         \* the clock isInActiveWindow reads: [utcDay, utcHour]
    active,      \* the last value isInActiveWindow returned, and for when
    thresholds,  \* per fetchCurrency call: the thresholds argument
    xhr,         \* per fetchCurrency call and source: the request's fate
    results,     \* per fetchCurrency call: the closure's results object
    completed,   \* per fetchCurrency call: the closure's counter
    delivered,   \* per fetchCurrency call: the callback's invocations
    wxhr,        \* the fetchWeather request: its fate
    wcallback,   \* what the caller's weather callback does with data
    wcalls,      \* the weather callback's invocations, in order
    wuncaught,   \* whether an exception left the weather handler
    exchange     \* the relay's latest request, upstream fetch and answer

vars == <<CONFIG, proxyCall, opened, now, active, thresholds, xhr, results, completed,
          delivered, wxhr, wcallback, wcalls, wuncaught, exchange>>

configVars == <<CONFIG, proxyCall>>
windowVars == <<now, active>>
currencyVars == <<thresholds, xhr, results, completed, delivered>>
weatherVars == <<wxhr, wcallback, wcalls, wuncaught>>

----------------------------------------------------------------------------
(* Strings *)

DigitChars == <<"0", "1", "2", "3", "4", "5", "6", "7", "8", "9">>

DigitChar(d) == DigitChars[d + 1]

IsDigit(ch) == \E d \in 0..9 : DigitChar(d) = ch

DigitValue(ch) == CHOOSE d \in 0..9 : DigitChar(d) = ch

\* '' + n for a non-negative integer n.
RECURSIVE NumToStr(_)
NumToStr(n) ==
    IF n < 10 THEN <<DigitChar(n)>>
    ELSE NumToStr(n \div 10) \o <<DigitChar(n % 10)>>

\* 'NaN' and 'Infinity', each one token.
NaNStr == <<"NaN">>

InfinityStr == <<"Infinity">>

\* A JS number, as far as the code computes with one: NaN, +Infinity, or a
\* finite non-negative value v.  Exchange rates are counted in millionths,
\* calendar fields in units.
NaNNum == [kind |-> "NaN", v |-> 0]

InfNum == [kind |-> "Infinity", v |-> 0]

Finite(v) == [kind |-> "finite", v |-> v]

\* padZero(num): num is an integer, or NaN (an invalid Date's fields).
padZero(num) ==
    IF num.kind = "NaN" THEN NaNStr
    ELSE IF num.v < 10 THEN <<"0">> \o NumToStr(num.v) ELSE NumToStr(num.v)

----------------------------------------------------------------------------
(* Numbers to strings and back *)

Million == 1000 * 1000

RECURSIVE Pow10(_)
Pow10(k) == IF k = 0 THEN 1 ELSE 10 * Pow10(k - 1)

\* The last k decimal digits of n, zero-padded on the left.
RECURSIVE LastDigits(_, _)
LastDigits(n, k) ==
    IF k = 0 THEN <<>>
    ELSE LastDigits(n \div 10, k - 1) \o <<DigitChar(n % 10)>>

\* Number.prototype.toFixed(5) of a rate (counted in millionths): five
\* decimals, the sixth rounded.
toFixed5(num) ==
    IF num.kind = "NaN" THEN NaNStr
    ELSE IF num.kind = "Infinity" THEN InfinityStr
    ELSE LET q == (num.v + 5) \div 10
         IN  NumToStr(q \div 100000) \o <<".">> \o LastDigits(q, 5)

\* 1 / usdEurRate, where usdEurRate is data.rates.EUR counted in
\* thousandths (NaN when the field is undefined); the quotient in millionths.
Reciprocal(num) ==
    IF num.kind = "NaN" THEN NaNNum
    ELSE IF num.kind = "Infinity" THEN Finite(0)
    ELSE IF num.v = 0 THEN InfNum
    ELSE Finite((1000 * Million) \div num.v)

RECURSIVE DigitsValue(_)
DigitsValue(str) ==
    IF str = <<>> THEN 0
    ELSE 10 * DigitsValue(SubSeq(str, 1, Len(str) - 1)) + DigitValue(str[Len(str)])

\* The longest prefix of str made of digits.
RECURSIVE DigitPrefix(_)
DigitPrefix(str) ==
    IF str = <<>> \/ ~IsDigit(Head(str)) THEN <<>>
    ELSE <<Head(str)>> \o DigitPrefix(Tail(str))

\* parseFloat of a string the code built: digits, optionally a point and
\* digits (at most six are kept); "Infinity"; anything else is NaN.
\* The value is counted in millionths.
parseFloat(str) ==
    IF str = InfinityStr THEN InfNum
    ELSE LET int  == DigitPrefix(str)
             rest == SubSeq(str, Len(int) + 1, Len(str))
             frac == IF rest # <<>> /\ Head(rest) = "."
                     THEN DigitPrefix(Tail(rest)) ELSE <<>>
             kept == SubSeq(frac, 1, IF Len(frac) > 6 THEN 6 ELSE Len(frac))
         IN  IF int = <<>> THEN NaNNum
             ELSE Finite(DigitsValue(int) * Million
                         + DigitsValue(kept) * Pow10(6 - Len(kept)))

\* The JS comparisons a < b and a > b: false whenever an operand is NaN.
NumLess(a, b) ==
    /\ a.kind # "NaN" /\ b.kind # "NaN"
    /\ a.kind # "Infinity"
    /\ (b.kind = "Infinity" \/ a.v < b.v)

NumGreater(a, b) == NumLess(b, a)

----------------------------------------------------------------------------
(* Dates *)

months == <<"Jan", "Feb", "Mar", "Apr", "May", "Jun",
            "Jul", "Aug", "Sep", "Oct", "Nov", "Dec">>

\* A Date object, by what the code reads of it: whether it is valid, and
\* its local getMonth(), getDate(), getHours(), getMinutes().
InvalidDate == [valid |-> FALSE, month |-> 0, date |-> 0, hours |-> 0, minutes |-> 0]

DateField(d, v) == IF d.valid THEN Finite(v) ELSE NaNNum

NumToText(num) == IF num.kind = "NaN" THEN NaNStr ELSE NumToStr(num.v)

\* months[d.getMonth()] + ' ' + d.getDate() + ', ' + padZero(d.getHours())
\*     + ':' + padZero(d.getMinutes())
FormatDateTime(d) ==
    (IF d.valid THEN <<months[d.month + 1]>> ELSE <<"undefined">>)
    \o <<" ">> \o NumToText(DateField(d, d.date)) \o <<",", " ">>
    \o padZero(DateField(d, d.hours)) \o <<":">> \o padZero(DateField(d, d.minutes))

----------------------------------------------------------------------------
(* URLs.  A URL is a sequence of tokens: each reserved character is a      *)
(* token of its own, and a run of unreserved characters is one token.      *)

Escapes ==
    (":" :> "%3A") @@ ("/" :> "%2F") @@ ("?" :> "%3F") @@ ("&" :> "%26") @@
    ("=" :> "%3D") @@ ("," :> "%2C") @@ ("@" :> "%40") @@ ("#" :> "%23") @@
    (" " :> "%20") @@ ("%" :> "%25") @@ ("+" :> "%2B")

IsReserved(tok) == tok \in DOMAIN Escapes

IsEscape(tok) == \E ch \in DOMAIN Escapes : Escapes[ch] = tok

Escape(tok) == Escapes[tok]

Unescape(tok) == CHOOSE ch \in DOMAIN Escapes : Escapes[ch] = tok

\* encodeURIComponent(str): every reserved character becomes its escape.
encodeURIComponent(str) ==
    [i \in 1..Len(str) |-> IF IsReserved(str[i]) THEN Escape(str[i]) ELSE str[i]]

\* The decoding URLSearchParams applies to a name or a value: '+' is a
\* space, and every escape is its character.
FormDecode(str) ==
    [i \in 1..Len(str) |->
        IF str[i] = "+" THEN " "
        ELSE IF IsEscape(str[i]) THEN Unescape(str[i])
        ELSE str[i]]

\* The serialisation URLSearchParams applies to a name or a value.
FormEncode(str) ==
    [i \in 1..Len(str) |->
        IF str[i] = " " THEN "+"
        ELSE IF IsReserved(str[i]) THEN Escape(str[i])
        ELSE str[i]]

Min(S) == CHOOSE i \in S : \A j \in S : i <= j

Max(S) == CHOOSE i \in S : \A j \in S : i >= j

\* The first position of a token of set toks in str, or Len(str) + 1.
IndexOf(str, toks) ==
    LET hits == {i \in 1..Len(str) : str[i] \in toks}
    IN  IF hits = {} THEN Len(str) + 1 ELSE Min(hits)

\* The last position of token tok in str, or 0.
LastIndexOf(str, tok) ==
    LET hits == {i \in 1..Len(str) : str[i] = tok}
    IN  IF hits = {} THEN 0 ELSE Max(hits)

Before(str, toks) == SubSeq(str, 1, IndexOf(str, toks) - 1)

After(str, toks) == SubSeq(str, IndexOf(str, toks) + 1, Len(str))

\* str split at every token tok.
RECURSIVE Split(_, _)
Split(str, tok) ==
    IF IndexOf(str, {tok}) > Len(str) THEN <<str>>
    ELSE <<Before(str, {tok})>> \o Split(After(str, {tok}), tok)

Schemes == {"http", "https", "ftp"}

\* Host names the URL parser lower-cases.
ToLowerCase(tok) ==
    IF tok = "API.OPEN-METEO.COM" THEN "api.open-meteo.com" ELSE tok

\* Whether new URL(str) succeeds: a scheme, "://" and a host.
Authority(str) == Before(SubSeq(str, 5, Len(str)), {"/", "?", "#"})

HostPort(str) ==
    LET a == Authority(str)
    IN  SubSeq(a, LastIndexOf(a, "@") + 1, Len(a))

IsValidURL(str) ==
    /\ Len(str) >= 5
    /\ str[1] \in Schemes /\ str[2] = ":" /\ str[3] = "/" /\ str[4] = "/"
    /\ HostPort(str) # <<>>
    /\ ~IsReserved(Head(HostPort(str)))

\* new URL(str).hostname, for a str that IsValidURL.
Hostname(str) == ToLowerCase(Head(HostPort(str)))

\* The query of a URL: what follows the first '?', up to a '#'.
Query(str) ==
    LET noFragment == Before(str, {"#"})
    IN  After(noFragment, {"?"})

Fragment(str) == SubSeq(str, IndexOf(str, {"#"}), Len(str))

\* The query's (name, value) pairs, decoded.
RECURSIVE DecodePairs(_)
DecodePairs(parts) ==
    IF parts = <<>> THEN <<>>
    ELSE (IF Head(parts) = <<>> THEN <<>>
          ELSE << [name  |-> FormDecode(Before(Head(parts), {"="})),
                   value |-> FormDecode(After(Head(parts), {"="}))] >>)
         \o DecodePairs(Tail(parts))

SearchParams(str) == DecodePairs(Split(Query(str), "&"))

\* url.searchParams.get(name): the first pair of that name; null is
\* [null |-> TRUE].
SearchParamsGet(str, name) ==
    LET ps == SearchParams(str)
        hits == {i \in 1..Len(ps) : ps[i].name = name}
    IN  IF hits = {} THEN [null |-> TRUE, value |-> <<>>]
        ELSE [null |-> FALSE,
              value |-> ps[CHOOSE i \in hits : \A j \in hits : i <= j].value]

\* searchParams.set(name, value): the first pair of that name takes the
\* value and the others go; without one, the pair is appended.
RECURSIVE DropNamed(_, _)
DropNamed(ps, name) ==
    IF ps = <<>> THEN <<>>
    ELSE (IF Head(ps).name = name THEN <<>> ELSE <<Head(ps)>>)
         \o DropNamed(Tail(ps), name)

SetPair(ps, name, value) ==
    LET i == IndexOf([k \in 1..Len(ps) |-> ps[k].name], {name})
    IN  IF i > Len(ps) THEN Append(ps, [name |-> name, value |-> value])
        ELSE SubSeq(ps, 1, i - 1) \o <<[name |-> name, value |-> value]>>
             \o DropNamed(SubSeq(ps, i + 1, Len(ps)), name)

RECURSIVE SerializePairs(_)
SerializePairs(ps) ==
    IF ps = <<>> THEN <<>>
    ELSE FormEncode(Head(ps).name) \o <<"=">> \o FormEncode(Head(ps).value)
         \o (IF Len(ps) > 1 THEN <<"&">> ELSE <<>>)
         \o SerializePairs(Tail(ps))

\* finalUrl = new URL(str); finalUrl.searchParams.set(name, value);
\* finalUrl.toString()
WithSearchParam(str, name, value) ==
    Before(str, {"?", "#"})
    \o <<"?">> \o SerializePairs(SetPair(SearchParams(str), name, value))
    \o Fragment(str)

----------------------------------------------------------------------------
(* isInActiveWindow *)

Days == 0..6

Hours == 0..23

\* "Block midnight to 7 AM UTC", as the code tests it.
DailyBlocked(utcHour) == utcHour >= 0 /\ utcHour <= 7

\* A faulty variant: the Sunday test is left out.
WeekendBlockedNoSunday(utcDay, utcHour) ==
    \/ utcDay = 5 /\ utcHour >= 21
    \/ utcDay = 6

\* "Weekend block-out", as the code tests it.
WeekendBlocked(utcDay, utcHour) ==
    \/ utcDay = 5 /\ utcHour >= 21
    \/ utcDay = 6
    \/ utcDay = 0 /\ utcHour < 21

isInActiveWindow(utcDay, utcHour) ==
    IF DailyBlocked(utcHour) THEN FALSE
    ELSE IF WeekendBlocked(utcDay, utcHour) THEN FALSE
    ELSE TRUE

NoAnswer == [asked |-> FALSE, utcDay |-> 0, utcHour |-> 0, value |-> FALSE]

\* A call of isInActiveWindow: reads the clock, returns a value.
CallIsInActiveWindow ==
    /\ active' = [asked |-> TRUE, utcDay |-> now.utcDay, utcHour |-> now.utcHour,
                  value |-> isInActiveWindow(now.utcDay, now.utcHour)]
    /\ UNCHANGED <<now, configVars, currencyVars, weatherVars, exchange,
                 opened>>

\* An hour passes.
Tick ==
    /\ now' = IF now.utcHour = 23
              THEN [utcDay |-> (now.utcDay + 1) % 7, utcHour |-> 0]
              ELSE [utcDay |-> now.utcDay, utcHour |-> now.utcHour + 1]
    /\ UNCHANGED <<active, configVars, currencyVars, weatherVars, exchange,
                 opened>>

----------------------------------------------------------------------------
(* CONFIG and setProxyMode *)

DefaultProxyUrl == <<"https", ":", "/", "/", "weatherproxy.ldmathes.cc", "/">>

\* The proxyUrl arguments tried, by name.
ProxyUrlInputs == {"omitted", "default", "plain", "withQuery"}

\* The argument of that name; an omitted (or empty) one is <<>>.
ProxyUrl(name) ==
    CASE name = "omitted" -> <<>>
      [] name = "default" -> DefaultProxyUrl
      [] name = "plain" -> <<"https", ":", "/", "/", "relay.example", "/">>
      [] name = "withQuery" ->
            <<"https", ":", "/", "/", "relay.example", "/", "?", "k", "=", "v">>

\* No call yet.  given names the latest proxyUrl argument that was not
\* omitted (the default URL before any).
NoProxyCall ==
    [called |-> FALSE, useProxy |-> FALSE, proxyUrl |-> "omitted", given |-> "default"]

\* CONFIG after setProxyMode(useProxy, proxyUrl).
setProxyMode(useProxy, proxyUrl) ==
    [USE_PROXY |-> useProxy,
     PROXY_URL |-> IF proxyUrl # <<>> THEN proxyUrl ELSE CONFIG.PROXY_URL]

SetProxyMode(useProxy, name) ==
    /\ CONFIG' = setProxyMode(useProxy, ProxyUrl(name))
    /\ proxyCall' = [called |-> TRUE, useProxy |-> useProxy, proxyUrl |-> name,
                     given |-> IF name # "omitted" THEN name ELSE proxyCall.given]
    /\ UNCHANGED <<windowVars, currencyVars, weatherVars, exchange, opened>>

\* A faulty variant: CONFIG.USE_PROXY is ignored.
RequestUrlDirect(apiUrl) == apiUrl

\* CONFIG.USE_PROXY ? CONFIG.PROXY_URL + '?url=' + encodeURIComponent(apiUrl)
\*                  : apiUrl
RequestUrl(apiUrl) ==
    IF CONFIG.USE_PROXY
    THEN CONFIG.PROXY_URL \o <<"?", "url", "=">> \o encodeURIComponent(apiUrl)
    ELSE apiUrl

\* An XMLHttpRequest: not yet opened, in flight, or finished by one of
\* its events; nth tells the how-manieth of its fetch's requests it was to
\* finish.
Unsent == [kind |-> "unsent", response |-> [status |-> 0, body |-> "none"], nth |-> 0]

Pending == [kind |-> "pending", response |-> [status |-> 0, body |-> "none"], nth |-> 0]

Finish(x, kind, response, nth) ==
    [x EXCEPT !.kind = kind, !.response = response, !.nth = nth]

\* The fetches: the calls of fetchCurrency, and the call of fetchWeather.
Fetches == {"first", "second", "weather"}

NotOpened == [sent |-> FALSE, call |-> NoProxyCall, lat |-> <<>>, url |-> <<>>]

\* What a fetch opens: a request for each of apiUrls, at RequestUrl of it;
\* kept with the setProxyMode call then in force and the latitude asked.
Opening(lat, apiUrls) ==
    [sent |-> TRUE, call |-> proxyCall, lat |-> lat,
     url |-> [k \in DOMAIN apiUrls |-> RequestUrl(apiUrls[k])]]

----------------------------------------------------------------------------
(* fetchCurrency *)

\* The calls of fetchCurrency.
Calls == {"first", "second"}

Sources == {"oxr", "ecb", "alt"}

apiUrl1 == <<"https", ":", "/", "/", "openexchangerates.org", "/", "api", "/",
             "latest.json", "?", "app_id", "=", "59f0442d524d41608055554519509c57">>

apiUrl2 == <<"https", ":", "/", "/", "api.frankfurter.app", "/", "latest", "?",
             "from", "=", "EUR", "&", "to", "=", "USD">>

apiUrl3 == <<"https", ":", "/", "/", "api.exchangerate-api.com", "/", "v4", "/",
             "latest", "/", "EUR">>

CurrencyApiUrl(s) ==
    CASE s = "oxr" -> apiUrl1 [] s = "ecb" -> apiUrl2 [] s = "alt" -> apiUrl3

\* The bodies a currency source may answer with, by what the handlers read:
\*   "garbage"  JSON.parse throws
\*   "noRates"  an object without rates (an API error object)
\*   "noRate"   rates without the currency wanted
\*   "rateA", "rateB"  two complete bodies
\*   "noTime"   complete, without the update time
CurrencyBodies(s) ==
    CASE s = "oxr" -> {"garbage", "noRates", "noRate", "rateA", "rateB"}
      [] s = "ecb" -> {"garbage", "noRate", "rateA", "rateB"}
      [] s = "alt" -> {"noRates", "rateA", "noTime"}

CurrencyResponses(s) ==
    {[status |-> 200, body |-> b] : b \in CurrencyBodies(s)}
    \cup {[status |-> 500, body |-> "rateA"]}

\* The responses tried when two calls run side by side.
PairResponses(s) ==
    {[status |-> 200, body |-> "rateA"]}
    \cup (IF s = "oxr" THEN {[status |-> 200, body |-> "noRate"]} ELSE {})

HasRates(body) == body \notin {"noRates"}

\* data.rates.EUR of the OXR body, in thousandths; data.rates.USD of the
\* others, in millionths.  NaN stands for undefined.
RatesField(s, body) ==
    CASE body = "noRate" -> NaNNum
      [] s = "oxr" /\ body = "rateA" -> Finite(900)
      [] s = "oxr" -> Finite(800)
      [] s = "ecb" /\ body = "rateA" -> Finite(1085004)
      [] s = "ecb" -> Finite(1150000)
      [] s = "alt" /\ body = "rateA" -> Finite(1234567)
      [] OTHER -> Finite(1099996)

\* new Date(data.timestamp * 1000) and new Date(data.time_last_update_utc).
BodyDate(s, body) ==
    IF body = "rateA"
    THEN [valid |-> TRUE, month |-> 10, date |-> 2, hours |-> 9, minutes |-> 21]
    ELSE IF body = "rateB"
    THEN [valid |-> TRUE, month |-> 0, date |-> 31, hours |-> 10, minutes |-> 5]
    ELSE InvalidDate

\* data.date of the ECB body, a string the handler keeps as it is.
BodyDateString(body) ==
    IF body = "rateA" THEN <<"2024-11-01">> ELSE <<"2024-11-04">>

\* A slot of results: null, or the record a handler stored (the ECB
\* record's date is kept in dateTime).
Null == [null |-> TRUE, rate |-> <<>>, dateTime |-> <<>>]

Record(rate, dateTime) == [null |-> FALSE, rate |-> rate, dateTime |-> dateTime]

\* Whether the try block of a source's onload handler throws: JSON.parse
\* on garbage, data.rates.X on a body without rates, and undefined.toFixed
\* on a body without the rate (ECB, Alt; OXR divides first).
Throws(s, r) ==
    \/ r.body = "garbage"
    \/ ~HasRates(r.body)
    \/ s # "oxr" /\ RatesField(s, r.body).kind = "NaN"

\* What a source's onload handler leaves in its slot of results.
OnLoad(s, r, old) ==
    IF r.status # 200 \/ Throws(s, r) THEN old
    ELSE CASE s = "oxr" ->
                Record(toFixed5(Reciprocal(RatesField(s, r.body))),
                       FormatDateTime(BodyDate(s, r.body)))
           [] s = "ecb" ->
                Record(toFixed5(RatesField(s, r.body)), BodyDateString(r.body))
           [] s = "alt" ->
                Record(toFixed5(RatesField(s, r.body)),
                       IF r.body # "noTime" /\ BodyDate(s, r.body).valid
                       THEN FormatDateTime(BodyDate(s, r.body))
                       ELSE <<>>)

\* thresholds.low || 1.1 and thresholds.high || 1.2, in millionths;
\* 0 stands for an absent (or zero) field.
DefaultLow == 1100000

DefaultHigh == 1200000

ThresholdInputs == { [low |-> 0, high |-> 0], [low |-> 1120000, high |-> 1300000] }

lowThreshold(th) == Finite(IF th.low # 0 THEN th.low ELSE DefaultLow)

highThreshold(th) == Finite(IF th.high # 0 THEN th.high ELSE DefaultHigh)

PlaceholderRate == <<"0", ".", "0", "0", "0", "0", "0">>

displayRate(res) ==
    IF ~res.oxr.null THEN res.oxr.rate
    ELSE IF ~res.ecb.null THEN res.ecb.rate
    ELSE IF ~res.alt.null THEN res.alt.rate
    ELSE PlaceholderRate

source(res) ==
    IF ~res.oxr.null THEN "OXR"
    ELSE IF ~res.ecb.null THEN "ECB"
    ELSE IF ~res.alt.null THEN "Alt"
    ELSE ""

status(res, th) ==
    LET rateNum == parseFloat(displayRate(res))
    IN  IF NumLess(rateNum, lowThreshold(th)) THEN "low"
        ELSE IF NumGreater(rateNum, highThreshold(th)) THEN "high"
        ELSE ""

\* The callback's invocation: callback(null, {rate, source, status, details}).
Delivery(res, th) ==
    [error |-> "null", rate |-> displayRate(res), source |-> source(res),
     status |-> status(res, th), details |-> res]

\* Faulty variants: the join fires after two completions, or after one.
JoinAfterTwo(n) == n >= 2

JoinAfterOne(n) == n >= 1

\* completed >= 3
AllCompleted(n) == n >= 3

\* checkComplete(), from the handler of call c that leaves res in results.
checkComplete(c, res) ==
    /\ completed' = [completed EXCEPT ![c] = @ + 1]
    /\ delivered' = [delivered EXCEPT ![c] =
                        IF AllCompleted(completed[c] + 1)
                        THEN Append(@, Delivery(res, thresholds[c]))
                        ELSE @]

\* fetchCurrency(th, callback): the closure's state, and the three requests.
FetchCurrency(c, th) ==
    /\ \A s \in Sources : xhr[c][s].kind = "unsent"
    /\ thresholds' = [thresholds EXCEPT ![c] = th]
    /\ results' = [results EXCEPT ![c] = [oxr |-> Null, ecb |-> Null, alt |-> Null]]
    /\ completed' = [completed EXCEPT ![c] = 0]
    /\ xhr' = [xhr EXCEPT ![c] = [s \in Sources |-> Pending]]
    /\ opened' = [opened EXCEPT ![c] =
                     Opening(<<>>, [s \in Sources |-> CurrencyApiUrl(s)])]
    /\ UNCHANGED <<delivered, configVars, windowVars, weatherVars, exchange>>

\* xhr1.onload, xhr2.onload, xhr3.onload
XhrLoad(c, s, r) ==
    /\ xhr[c][s].kind = "pending"
    /\ xhr' = [xhr EXCEPT ![c][s] = Finish(@, "load", r, completed[c] + 1)]
    /\ results' = [results EXCEPT ![c][s] = OnLoad(s, r, @)]
    /\ checkComplete(c, results'[c])
    /\ UNCHANGED <<thresholds, configVars, windowVars, weatherVars, exchange,
                 opened>>

\* xhr1.onerror, xhr2.onerror, xhr3.onerror
XhrError(c, s) ==
    /\ xhr[c][s].kind = "pending"
    /\ xhr' = [xhr EXCEPT ![c][s] = Finish(@, "error", @.response, completed[c] + 1)]
    /\ checkComplete(c, results[c])
    /\ UNCHANGED <<thresholds, results, configVars, windowVars, weatherVars, exchange,
                 opened>>

----------------------------------------------------------------------------
(* fetchWeather *)

LatInputs ==
    { <<"51.5">>, <<"-33.9">>,
      <<"0", "&", "url", "=", "https", ":", "/", "/", "evil.example", "/">> }

Lon == <<"-0.1">>

WeatherApiUrl(lat, lon) ==
    <<"http", ":", "/", "/", "api.open-meteo.com", "/", "v1", "/", "forecast", "?",
      "latitude", "=">> \o lat \o <<"&", "longitude", "=">> \o lon
    \o <<"&", "current", "=", "temperature_2m", ",", "relative_humidity_2m", ",",
         "apparent_temperature", ",", "weather_code", ",", "wind_speed_10m",
         "&", "daily", "=", "sunrise", ",", "sunset", ",", "temperature_2m_max", ",",
         "temperature_2m_min", ",", "precipitation_probability_max", ",",
         "weather_code",
         "&", "temperature_unit", "=", "celsius", "&", "wind_speed_unit", "=", "mph",
         "&", "timezone", "=", "auto", "&", "forecast_days", "=", "4">>

getWeatherIcon(code) ==
    IF code = 0 THEN "sun"
    ELSE IF code <= 3 THEN "cloud"
    ELSE IF code <= 67 THEN "rain"
    ELSE IF code <= 77 THEN "snow"
    ELSE IF code <= 99 THEN "storm"
    ELSE "sun"

days == <<"Sun", "Mon", "Tue", "Wed", "Thu", "Fri", "Sat">>

\* getDayName(dateStr), dateStr a date whose getDay() is weekday.
getDayName(weekday) == days[weekday + 1]

\* Math.round(t) and Math.round(t * 9/5 + 32), t counted in tenths.
RoundC(t) == (t + 5) \div 10

RoundF(t) == (t * 18 + 3200 + 50) \div 100

\* The bodies the forecast API may answer with, by what the handler reads:
\*   "garbage"   JSON.parse throws
\*   "reason"    an API error: {error: true, reason: ...}
\*   "errorOnly" {error: true} without a reason
\*   "noDaily"   data without the daily block
\*   "mild", "frost"  two complete bodies
WeatherBodies == {"garbage", "reason", "errorOnly", "noDaily", "mild", "frost"}

WeatherResponses ==
    {[status |-> 200, body |-> b] : b \in WeatherBodies}
    \cup {[status |-> 500, body |-> "reason"], [status |-> 404, body |-> "garbage"]}

\* The parsed data of a complete body; temperatures in tenths of a degree,
\* a null rain probability as 0.
WeatherData(body) ==
    IF body = "mild"
    THEN [temperature_2m |-> 184, apparent_temperature |-> 175,
          relative_humidity_2m |-> 60, wind_speed_10m |-> 123, weather_code |-> 2,
          temperature_2m_max |-> <<205, 215, 190, 185>>,
          temperature_2m_min |-> <<101, 115, 95, 80>>,
          precipitation_probability_max |-> <<0, 40, 80, 5>>,
          daily_weather_code |-> <<2, 61, 95, 0>>,
          weekday |-> <<6, 0, 1, 2>>,
          sunrise |-> <<"2024-11-02T06:55">>, sunset |-> <<"2024-11-02T16:33">>]
    ELSE [temperature_2m |-> -25, apparent_temperature |-> -75,
          relative_humidity_2m |-> 90, wind_speed_10m |-> 45, weather_code |-> 71,
          temperature_2m_max |-> <<-15, 5, 14, 20>>,
          temperature_2m_min |-> <<-85, -45, -25, 0>>,
          precipitation_probability_max |-> <<70, 0, 0, 100>>,
          daily_weather_code |-> <<71, 3, 0, 100>>,
          weekday |-> <<3, 4, 5, 6>>,
          sunrise |-> <<"2024-01-10T08:03">>, sunset |-> <<"2024-01-10T16:12">>]

ForecastDay(data, i) ==
    [day |-> getDayName(data.weekday[i]),
     highC |-> RoundC(data.temperature_2m_max[i]),
     highF |-> RoundF(data.temperature_2m_max[i]),
     lowC |-> RoundC(data.temperature_2m_min[i]),
     lowF |-> RoundF(data.temperature_2m_min[i]),
     icon |-> getWeatherIcon(data.daily_weather_code[i]),
     rainChance |-> data.precipitation_probability_max[i]]

\* The processed object of the onload handler.
Processed(data) ==
    [current |-> [tempC |-> RoundC(data.temperature_2m),
                  tempF |-> RoundF(data.temperature_2m),
                  feelsLikeC |-> RoundC(data.apparent_temperature),
                  feelsLikeF |-> RoundF(data.apparent_temperature),
                  humidity |-> data.relative_humidity_2m,
                  windSpeed |-> RoundC(data.wind_speed_10m),
                  weatherCode |-> data.weather_code,
                  icon |-> getWeatherIcon(data.weather_code)],
     today |-> [highC |-> RoundC(data.temperature_2m_max[1]),
                highF |-> RoundF(data.temperature_2m_max[1]),
                lowC |-> RoundC(data.temperature_2m_min[1]),
                lowF |-> RoundF(data.temperature_2m_min[1]),
                rainChance |-> data.precipitation_probability_max[1],
                sunrise |-> data.sunrise, sunset |-> data.sunset],
     forecast |-> [i \in 1..3 |-> ForecastDay(data, i + 1)]]

\* An invocation of the caller's callback: callback({error: message}) or
\* callback(null, processed).
WithError(message) == [error |-> message, data |-> <<>>]

WithData(processed) == [error |-> <<>>, data |-> <<processed>>]

\* What the caller's callback may do with an invocation.
CallbackInputs == {"returns", "throwsOnData", "throwsOnError", "throwsAlways"}

CallbackThrows(cb, invocation) ==
    \/ cb = "throwsAlways"
    \/ cb = "throwsOnData" /\ invocation.data # <<>>
    \/ cb = "throwsOnError" /\ invocation.data = <<>>

\* data.reason || (typeof data.error === 'string' ? data.error : 'Unknown error')
ApiErrorMessage(body) ==
    IF body = "reason" THEN <<"Latitude must be in range of -90 to 90">>
    ELSE <<"Unknown error">>

\* The catch block: callback({error: 'Parse error: ' + e.message}).
Caught(cb, before, message) ==
    LET second == WithError(<<"Parse error: ">> \o message)
    IN  [calls |-> Append(before, second), uncaught |-> CallbackThrows(cb, second)]

\* xhr.onload: the callback's invocations, in order, and whether an
\* exception leaves the handler.
OnWeatherLoad(r, cb) ==
    IF r.status = 200
    THEN IF r.body = "garbage" THEN Caught(cb, <<>>, <<"Unexpected token">>)
         ELSE IF r.body \in {"reason", "errorOnly"}
         THEN LET first == WithError(ApiErrorMessage(r.body))
              IN  IF CallbackThrows(cb, first)
                  THEN Caught(cb, <<first>>, <<"callback failed">>)
                  ELSE [calls |-> <<first>>, uncaught |-> FALSE]
         ELSE IF r.body = "noDaily"
         THEN Caught(cb, <<>>, <<"Cannot read property of undefined">>)
         ELSE LET first == WithData(Processed(WeatherData(r.body)))
              IN  IF CallbackThrows(cb, first)
                  THEN Caught(cb, <<first>>, <<"callback failed">>)
                  ELSE [calls |-> <<first>>, uncaught |-> FALSE]
    ELSE LET only == WithError(<<"HTTP Error ">> \o NumToStr(r.status))
         IN  [calls |-> <<only>>, uncaught |-> CallbackThrows(cb, only)]

\* xhr.onerror and xhr.ontimeout.
OnWeatherFailure(message, cb) ==
    LET only == WithError(<<message>>)
    IN  [calls |-> <<only>>, uncaught |-> CallbackThrows(cb, only)]

\* fetchWeather(lat, lon, callback)
FetchWeather(lat, cb) ==
    /\ wxhr.kind = "unsent"
    /\ wxhr' = Pending
    /\ opened' = [opened EXCEPT !["weather"] =
                     Opening(lat, [k \in {"weather"} |-> WeatherApiUrl(lat, Lon)])]
    /\ wcallback' = cb
    /\ UNCHANGED <<wcalls, wuncaught, configVars, windowVars, currencyVars, exchange>>

WeatherLoad(r) ==
    /\ wxhr.kind = "pending"
    /\ wxhr' = Finish(wxhr, "load", r, 1)
    /\ wcalls' = wcalls \o OnWeatherLoad(r, wcallback).calls
    /\ wuncaught' = OnWeatherLoad(r, wcallback).uncaught
    /\ UNCHANGED <<wcallback, configVars, windowVars, currencyVars, exchange,
                 opened>>

WeatherError ==
    /\ wxhr.kind = "pending"
    /\ wxhr' = Finish(wxhr, "error", wxhr.response, 1)
    /\ wcalls' = wcalls \o OnWeatherFailure("Network error", wcallback).calls
    /\ wuncaught' = OnWeatherFailure("Network error", wcallback).uncaught
    /\ UNCHANGED <<wcallback, configVars, windowVars, currencyVars, exchange,
                 opened>>

WeatherTimeout ==
    /\ wxhr.kind = "pending"
    /\ wxhr' = Finish(wxhr, "timeout", wxhr.response, 1)
    /\ wcalls' = wcalls \o OnWeatherFailure("Request timeout", wcallback).calls
    /\ wuncaught' = OnWeatherFailure("Request timeout", wcallback).uncaught
    /\ UNCHANGED <<wcallback, configVars, windowVars, currencyVars, exchange,
                 opened>>

----------------------------------------------------------------------------
(* The edge relay: two revisions of the worker's fetch handler; revision 2 *)
(* takes env and injects the Open-Meteo key.                               *)

Revisions == {1, 2}

\* A faulty variant: a fifth host is let through.
allowedDomainsAndEvil ==
    {"api.open-meteo.com", "openexchangerates.org", "api.frankfurter.app",
     "api.exchangerate-api.com", "evil.example"}

allowedDomains ==
    {"api.open-meteo.com", "openexchangerates.org", "api.frankfurter.app",
     "api.exchangerate-api.com"}

\* env.OPENMETEO_API_KEY: unset (<<>>) or the secret.
SecretKey == <<"s3cr3t">>

KeyInputs == {<<>>, SecretKey}

\* What the upstream fetch does: answers with a status, or throws.
UpstreamInputs == {"200", "403", "throws"}

\* A faulty variant: the key is added whatever the target.
InjectsKeyAnywhere(revision, targetDomain, apiKey) ==
    revision = 2 /\ apiKey # <<>>

\* targetDomain === 'api.open-meteo.com' and apiKey is truthy (revision 2).
InjectsKey(revision, targetDomain, apiKey) ==
    revision = 2 /\ targetDomain = "api.open-meteo.com" /\ apiKey # <<>>

Answer(code, body, fetched, threw) ==
    [status |-> code, body |-> body, fetched |-> fetched, threw |-> threw]

\* The checks before the upstream fetch: the early answer, or the answer
\* with status 0 when the handler goes on.  In revision 1 an unparsable url
\* parameter throws out of the handler.
Gate(revision, request) ==
    LET param == SearchParamsGet(request, <<"url">>)
        targetUrl == param.value
    IN  IF param.null \/ targetUrl = <<>>
        THEN Answer(400, "Missing url parameter", <<>>, FALSE)
        ELSE IF ~IsValidURL(targetUrl)
        THEN IF revision = 1
             THEN Answer(500, "exception", <<>>, TRUE)
             ELSE Answer(400, "Invalid target URL format", <<>>, FALSE)
        ELSE IF Hostname(targetUrl) \notin allowedDomains
        THEN Answer(403, "Domain not allowed", <<>>, FALSE)
        ELSE Answer(0, "", <<>>, FALSE)

\* The URL the handler fetches upstream.
UpstreamUrl(revision, targetUrl, apiKey) ==
    IF InjectsKey(revision, Hostname(targetUrl), apiKey)
    THEN WithSearchParam(targetUrl, <<"apikey">>, apiKey)
    ELSE targetUrl

\* The answer once the upstream fetch has been made: revision 1 answers 200
\* with the upstream body, revision 2 with the upstream status.
Forwarded(revision, upstream, fetched) ==
    IF upstream = "throws" THEN Answer(500, "Proxy error", fetched, FALSE)
    ELSE IF revision = 1 \/ upstream = "200" THEN Answer(200, "upstream", fetched, FALSE)
    ELSE Answer(403, "upstream", fetched, FALSE)

\* The handler: the answer, with the URLs fetched upstream (none or one).
RelayAnswer(revision, request, apiKey, upstream) ==
    IF Gate(revision, request).status # 0 THEN Gate(revision, request)
    ELSE Forwarded(revision, upstream,
             <<UpstreamUrl(revision, SearchParamsGet(request, <<"url">>).value, apiKey)>>)

NoExchange ==
    [handled |-> FALSE, revision |-> 1, request |-> <<>>, apiKey |-> <<>>,
     answer |-> Answer(0, "", <<>>, FALSE)]

\* The worker answers one request.
RelayFetch(revision, request, apiKey, upstream) ==
    /\ exchange' =
          [handled |-> TRUE, revision |-> revision, request |-> request,
           apiKey |-> apiKey,
           answer |-> RelayAnswer(revision, request, apiKey, upstream)]
    /\ UNCHANGED <<configVars, windowVars, currencyVars, weatherVars, opened>>

\* The url parameters tried on the relay.
TargetInputs ==
    { WeatherApiUrl(<<"51.5">>, Lon), apiUrl1, apiUrl2, apiUrl3,
      <<"https", ":", "/", "/", "evil.example", "/", "steal">>,
      <<"https", ":", "/", "/", "api.open-meteo.com", "@", "evil.example", "/">>,
      <<"https", ":", "/", "/", "evil.example", "/", "?", "h", "=", "api.open-meteo.com">>,
      <<"https", ":", "/", "/", "api.open-meteo.com.evil.example", "/">>,
      <<"https", ":", "/", "/", "evil.example", "#", "api.open-meteo.com">>,
      <<"https", ":", "/", "/", "API.OPEN-METEO.COM", "/", "v1", "/", "forecast",
        "?", "apikey", "=", "mine", "&", "latitude", "=", "1">>,
      <<"http", ":", "/", "/", "api.open-meteo.com", ":", "8080", "/", "v1">>,
      <<"ftp", ":", "/", "/", "api.frankfurter.app", "/", "latest">>,
      <<"https", ":", "/", "/", "?", "api.open-meteo.com">>,
      <<"api.open-meteo.com", "/", "v1", "/", "forecast">> }

\* The requests tried on the relay: a url parameter, none, an empty one,
\* and one under another name.
RelayRequestInputs ==
    { DefaultProxyUrl \o <<"?", "url", "=">> \o encodeURIComponent(t) : t \in TargetInputs }
    \cup { DefaultProxyUrl,
           DefaultProxyUrl \o <<"?", "url", "=">>,
           DefaultProxyUrl \o <<"?", "target", "=">> \o encodeURIComponent(apiUrl2),
           DefaultProxyUrl \o <<"?", "url", "=">> \o apiUrl2 }

----------------------------------------------------------------------------
(* Specifications *)

Init ==
    /\ CONFIG = [USE_PROXY |-> FALSE, PROXY_URL |-> DefaultProxyUrl]
    /\ proxyCall = NoProxyCall
    /\ opened = [f \in Fetches |-> NotOpened]
    /\ now \in [utcDay : Days, utcHour : Hours]
    /\ active = NoAnswer
    /\ thresholds = [c \in Calls |-> [low |-> 0, high |-> 0]]
    /\ xhr = [c \in Calls |-> [s \in Sources |-> Unsent]]
    /\ results = [c \in Calls |-> [oxr |-> Null, ecb |-> Null, alt |-> Null]]
    /\ completed = [c \in Calls |-> 0]
    /\ delivered = [c \in Calls |-> <<>>]
    /\ wxhr = Unsent
    /\ wcallback = "returns"
    /\ wcalls = <<>>
    /\ wuncaught = FALSE
    /\ exchange = NoExchange

\* One moment of the clock, for the specifications that do not read it.
InitAt == Init /\ now = [utcDay |-> 1, utcHour |-> 12]

NextWindow == Tick \/ CallIsInActiveWindow

SpecWindow == Init /\ [][NextWindow]_vars

\* One call of fetchCurrency, every response of every source.
NextCurrency ==
    \/ \E th \in ThresholdInputs : FetchCurrency("first", th)
    \/ \E s \in Sources : \E r \in CurrencyResponses(s) : XhrLoad("first", s, r)
    \/ \E s \in Sources : XhrError("first", s)

SpecCurrency == InitAt /\ [][NextCurrency]_vars

\* Two calls of fetchCurrency side by side, their requests finishing in
\* any order.
NextCurrencyPair ==
    \/ \E c \in Calls, th \in ThresholdInputs : FetchCurrency(c, th)
    \/ \E c \in Calls, s \in Sources :
          \E r \in PairResponses(s) : XhrLoad(c, s, r)
    \/ \E c \in Calls, s \in Sources : XhrError(c, s)

SpecCurrencyPair == InitAt /\ [][NextCurrencyPair]_vars

NextWeather ==
    \/ \E lat \in LatInputs, cb \in CallbackInputs : FetchWeather(lat, cb)
    \/ \E r \in WeatherResponses : WeatherLoad(r)
    \/ WeatherError
    \/ WeatherTimeout

SpecWeather == InitAt /\ [][NextWeather]_vars

NextProxy ==
    \/ \E useProxy \in BOOLEAN, name \in ProxyUrlInputs :
          SetProxyMode(useProxy, name)
    \/ \E lat \in LatInputs : FetchWeather(lat, "returns")
    \/ \E th \in ThresholdInputs : FetchCurrency("first", th)

SpecProxy == InitAt /\ [][NextProxy]_vars

NextRelay ==
    \E revision \in Revisions, request \in RelayRequestInputs,
       apiKey \in KeyInputs, upstream \in UpstreamInputs :
        RelayFetch(revision, request, apiKey, upstream)

SpecRelay == InitAt /\ [][NextRelay]_vars

----------------------------------------------------------------------------
(* Properties *)

Range(f) == {f[i] : i \in DOMAIN f}

Finished(x) == x.kind \in {"load", "error", "timeout"}

AllFinished(c) == \A s \in Sources : Finished(xhr[c][s])

\* C1: the callback of a fetchCurrency call is invoked exactly once, and not
\* before all three of its requests have finished: no invocation while a
\* request is pending, one invocation once all three have finished.
C1_CallbackOnceAfterAll ==
    \A c \in Calls :
        /\ Len(delivered[c]) <= 1
        /\ delivered[c] # <<>> => AllFinished(c)
        /\ AllFinished(c) => Len(delivered[c]) = 1

\* OXR has answered with a good rate, the others are still in flight, and
\* nothing has been delivered.
C1_Witness_HeldBack ==
    /\ xhr["first"]["oxr"].kind = "load"
    /\ ~results["first"].oxr.null
    /\ xhr["first"]["ecb"].kind = "pending"
    /\ xhr["first"]["alt"].kind = "pending"
    /\ delivered["first"] = <<>>

\* All three have finished, OXR first and with a good rate, and the
\* callback has been invoked.
C1_Witness ==
    /\ AllFinished("first")
    /\ xhr["first"]["oxr"].nth = 1
    /\ xhr["first"]["oxr"].response.body = "rateA"
    /\ xhr["first"]["oxr"].response.status = 200
    /\ xhr["first"]["alt"].kind = "error"
    /\ Len(delivered["first"]) = 1

\* A source's request succeeded: it loaded with status 200 and a body that
\* carries the rate asked for.  Otherwise it failed: a network error, a
\* status other than 200, or an unparsable or incomplete body.
Succeeded(x) ==
    /\ x.kind = "load"
    /\ x.response.status = 200
    /\ x.response.body \in {"rateA", "rateB", "noTime"}

Failed(x) == Finished(x) /\ ~Succeeded(x)

\* C2: the delivered source label follows the precedence OXR, ECB, Alt over
\* the sources whose requests succeeded, and the delivered rate is the rate
\* recorded in details for the source the label names.
C2_Precedence ==
    \A c \in Calls : \A i \in 1..Len(delivered[c]) :
        LET d == delivered[c][i]
        IN  /\ Succeeded(xhr[c]["oxr"]) => d.source = "OXR"
            /\ ~Succeeded(xhr[c]["oxr"]) /\ Succeeded(xhr[c]["ecb"])
                   => d.source = "ECB"
            /\ ~Succeeded(xhr[c]["oxr"]) /\ ~Succeeded(xhr[c]["ecb"])
                   /\ Succeeded(xhr[c]["alt"]) => d.source = "Alt"
            /\ d.source = "OXR" => d.rate = d.details.oxr.rate
            /\ d.source = "ECB" => d.rate = d.details.ecb.rate
            /\ d.source = "Alt" => d.rate = d.details.alt.rate

\* C3: no failure of a source reaches the caller: the error argument is
\* null, details holds null for exactly the sources that failed, and when
\* all three failed the rate is '0.00000' and the label is empty.
C3_FailuresSwallowed ==
    \A c \in Calls : \A i \in 1..Len(delivered[c]) :
        LET d == delivered[c][i]
        IN  /\ d.error = "null"
            /\ d.details.oxr.null <=> Failed(xhr[c]["oxr"])
            /\ d.details.ecb.null <=> Failed(xhr[c]["ecb"])
            /\ d.details.alt.null <=> Failed(xhr[c]["alt"])
            /\ (\A s \in Sources : Failed(xhr[c][s]))
                   => d.rate = PlaceholderRate /\ d.source = ""

SameOutcomes(c1, c2) ==
    /\ thresholds[c1] = thresholds[c2]
    /\ \A s \in Sources :
          /\ xhr[c1][s].kind = xhr[c2][s].kind
          /\ xhr[c1][s].response = xhr[c2][s].response

\* C6: two runs of fetchCurrency in which every request has the same
\* outcome deliver the same result (rate, source, status and details),
\* whatever the orders in which their requests finished.
C6_OrderIndependent ==
    \A c1 \in Calls, c2 \in Calls :
        AllFinished(c1) /\ AllFinished(c2) /\ SameOutcomes(c1, c2)
            => delivered[c1] = delivered[c2]

\* Both runs have delivered, with the same outcomes (OXR and Alt good, ECB
\* a network error), their requests having finished in opposite orders.
C6_Witness ==
    /\ AllFinished("first") /\ AllFinished("second")
    /\ SameOutcomes("first", "second")
    /\ xhr["first"]["ecb"].kind = "error"
    /\ Succeeded(xhr["first"]["oxr"]) /\ Succeeded(xhr["first"]["alt"])
    /\ xhr["first"]["oxr"].nth = 1 /\ xhr["first"]["alt"].nth = 3
    /\ xhr["second"]["oxr"].nth = 3 /\ xhr["second"]["alt"].nth = 1
    /\ Len(delivered["first"]) = 1 /\ Len(delivered["second"]) = 1

\* C7: on Monday to Thursday (UTC) isInActiveWindow returns false for the
\* hours 0 to 6 and true for the hours 7 to 23.
C7_DailyBlock ==
    active.asked /\ active.utcDay \in 1..4 =>
        /\ active.utcHour \in 0..6 => active.value = FALSE
        /\ active.utcHour \in 7..23 => active.value = TRUE

\* The hours since Friday 21:00 UTC, within the week.
SinceFridayNight(utcDay, utcHour) == (utcDay * 24 + utcHour + 168 - (5 * 24 + 21)) % 168

\* C8: the weekend block-out is the 48 hours from Friday 21:00 UTC:
\* isInActiveWindow returns false throughout, and true on Sunday from 21 and
\* on Friday from the end of the daily block up to 20.
C8_WeekendBlock ==
    active.asked =>
        /\ SinceFridayNight(active.utcDay, active.utcHour) < 48 => ~active.value
        /\ active.utcDay = 0 /\ active.utcHour >= 21 => active.value
        /\ active.utcDay = 5 /\ active.utcHour <= 20 /\ ~DailyBlocked(active.utcHour)
               => active.value

\* Asked on Sunday at 20 (the last blocked hour), after the clock ran.
C8_Witness ==
    /\ active.asked /\ active.utcDay = 0 /\ active.utcHour = 20 /\ ~active.value
    /\ now.utcDay = 0 /\ now.utcHour = 21

FourHosts ==
    {"api.open-meteo.com", "openexchangerates.org", "api.frankfurter.app",
     "api.exchangerate-api.com"}

\* The url parameter the relay received with its latest request.
Received == SearchParamsGet(exchange.request, <<"url">>)

\* C4: the relay fetches upstream only when the url parameter's hostname is
\* one of the four allow-listed ones; another hostname is answered 403 and
\* a missing url parameter 400, both without an upstream fetch.
C4_AllowList ==
    exchange.handled =>
        /\ exchange.answer.fetched # <<>> =>
              /\ ~Received.null
              /\ IsValidURL(Received.value)
              /\ Hostname(Received.value) \in FourHosts
        /\ ~Received.null /\ IsValidURL(Received.value)
              /\ Hostname(Received.value) \notin FourHosts
              => /\ exchange.answer.status = 403
                 /\ exchange.answer.body = "Domain not allowed"
                 /\ exchange.answer.fetched = <<>>
        /\ Received.null => exchange.answer.status = 400 /\ exchange.answer.fetched = <<>>

\* A url that names an allow-listed host only as its user name is refused.
C4_Witness ==
    /\ exchange.handled
    /\ Received.value =
          <<"https", ":", "/", "/", "api.open-meteo.com", "@", "evil.example", "/">>
    /\ exchange.answer.status = 403
    /\ exchange.answer.fetched = <<>>

\* C5: the relay's key is in an upstream URL only when the target host is
\* api.open-meteo.com and the key is configured; in every other case the
\* URL fetched is exactly the url parameter received.
C5_KeyOnlyToOpenMeteo ==
    exchange.handled /\ exchange.answer.fetched # <<>> =>
        LET fetched == exchange.answer.fetched[1]
            host == Hostname(Received.value)
        IN  /\ (\E k \in Range(SecretKey) : k \in Range(fetched))
                  => host = "api.open-meteo.com" /\ exchange.apiKey = SecretKey
            /\ host # "api.open-meteo.com" \/ exchange.apiKey = <<>>
                  => fetched = Received.value

\* With the key configured, revision 2 forwards an OXR request unchanged.
C5_Witness ==
    /\ exchange.handled /\ exchange.revision = 2 /\ exchange.apiKey = SecretKey
    /\ Received.value = apiUrl1
    /\ exchange.answer.fetched = <<apiUrl1>>

\* With the key configured, revision 2 adds it to an Open-Meteo request.
C5_Witness_Injected ==
    /\ exchange.handled /\ exchange.revision = 2 /\ exchange.apiKey = SecretKey
    /\ exchange.answer.fetched # <<>>
    /\ Hostname(Received.value) = "api.open-meteo.com"
    /\ SearchParamsGet(exchange.answer.fetched[1], <<"apikey">>).value = SecretKey

\* The fetches made while the latest setProxyMode call was
\* setProxyMode(true, ...).
InProxyMode(f) == opened[f].sent /\ opened[f].call.called /\ opened[f].call.useProxy

\* The API URL that request k of fetch f asks.
ApiUrl(f, k) ==
    IF f = "weather" THEN WeatherApiUrl(opened[f].lat, Lon) ELSE CurrencyApiUrl(k)

StartsWith(str, prefix) ==
    Len(str) >= Len(prefix) /\ SubSeq(str, 1, Len(prefix)) = prefix

\* Neither revision of the relay refuses the request as 'Domain not
\* allowed' (403).
NeverRejected(url) ==
    \A revision \in Revisions : Gate(revision, url).body # "Domain not allowed"

HasQueryOrFragment(str) == \E tok \in Range(str) : tok \in {"?", "#"}

C10_CallbackOnce ==
    /\ ~Finished(wxhr) => wcalls = <<>>
    /\ Finished(wxhr) =>
          /\ Len(wcalls) = 1
          /\ \A i \in 1..Len(wcalls) : (wcalls[i].error = <<>>) # (wcalls[i].data = <<>>)

====
